---- MODULE Spec2Model ----
(***************************************************************************)
(* RoutePlotter (routePlotter.py): a route on a bounded 1-indexed grid.    *)
(* The model holds one RoutePlotter object: its fields _rows, _cols and    *)
(* _coords, and, as history, the last call made on it, the call's outcome  *)
(* and the coordinate list before the call.                                *)
(***************************************************************************)
EXTENDS Integers, Sequences, FiniteSets

(* ------------------------------ bounds -------------------------------- *)

\* largest number of rows / columns a grid is constructed with
MaxRows == 3

MaxCols == 3

\* how far outside 1..Max the constructor's arguments are drawn
DimSlack == 1

\* longest coordinate list: an accepted move is not taken beyond it
MaxLen == 4

\* number of successful removeCoord calls explored in one behaviour
MaxRemovals == 1

\* most direction lines in a route file
MaxFileMoves == 2

RowsRange == (0 - DimSlack)..MaxRows

ColsRange == (0 - DimSlack)..MaxCols

XRange == (0 - DimSlack)..(MaxCols + DimSlack)

YRange == (0 - DimSlack)..(MaxRows + DimSlack)

\* indexes handed to removeCoord(index): every position of the longest list,
\* counted from either end, and indexes beyond both ends
IndexRange == (0 - (MaxLen + 1))..(MaxLen + 1)

\* direction tokens handed to move: the four keys of _moves and others
Tokens == {"N", "S", "E", "W", "X", ""}

(* ------------------------------ state --------------------------------- *)

VARIABLES
    phase,      \* "new": no constructor call yet; "live": a RoutePlotter exists;
                \* "failed": the constructor raised, no object exists
    _rows,      \* self._rows
    _cols,      \* self._cols
    _coords,    \* self._coords, a sequence of Coordinate
    call,       \* the last call: its name and arguments
    result,     \* how the last call ended: "ok", a report, or the exception raised
    prev,       \* _coords before the last call
    accepted,   \* number of move calls that ended "ok"
    removed,    \* number of removeCoord calls that ended "ok"
    _matrix,    \* self._matrix, the rows of cells drawRoute last filled
    grid,       \* the string drawRoute last returned, as a sequence of characters
    startPos,   \* the initialPos the constructor was called with
    mainpc,     \* where the __main__ loop stands: "prompt", "fromFile", "moving",
                \* "returned", "done" (STOP), "crashed" (uncaught exception)
    nextRoute,  \* what input() last returned: "STOP", "" or a file name
    file,       \* the route file named by nextRoute
    pending,    \* the lines of the file not read yet
    ret,        \* what fromFile gave its caller: "route", "None" or an exception
    stdout      \* what the current pass of the loop has printed

ioVars == <<mainpc, nextRoute, file, pending, ret, stdout>>

vars == <<phase, _rows, _cols, _coords, call, result, prev, accepted, removed,
          _matrix, grid, startPos, mainpc, nextRoute, file, pending, ret, stdout>>

(* ---------------------------- Coordinate ------------------------------ *)

Coordinate(x, y) == [x |-> x, y |-> y]

__add__(self, object) == Coordinate(self.x + object.x, self.y + object.y)

__eq__(self, object) == self.x = object.x /\ self.y = object.y

(* --------------------------- RoutePlotter ----------------------------- *)

_moves_swapped ==
    [d \in {"N", "S", "E", "W"} |->
        CASE d = "N" -> Coordinate(1, 0)
          [] d = "S" -> Coordinate(0 - 1, 0)
          [] d = "E" -> Coordinate(0, 1)
          [] d = "W" -> Coordinate(0, 0 - 1)]

_moves ==
    [d \in {"N", "S", "E", "W"} |->
        CASE d = "N" -> Coordinate(0, 1)
          [] d = "S" -> Coordinate(0, 0 - 1)
          [] d = "E" -> Coordinate(1, 0)
          [] d = "W" -> Coordinate(0 - 1, 0)]

\* _checkPos with the upper bounds off by one
_checkPos_loose(rows, cols, coord) ==
    (coord.x >= 1 /\ coord.x <= cols + 1) /\ (coord.y >= 1 /\ coord.y <= rows + 1)

\* _checkPos with x tested against the rows and y against the columns
_checkPos_transposed(rows, cols, coord) ==
    (coord.x >= 1 /\ coord.x <= rows) /\ (coord.y >= 1 /\ coord.y <= cols)

\* _checkPos reads self._rows and self._cols; they are parameters here because
\* the constructor calls it on the fields it has just assigned
_checkPos(rows, cols, coord) ==
    (coord.x >= 1 /\ coord.x <= cols) /\ (coord.y >= 1 /\ coord.y <= rows)

\* list.pop(i) position: a negative index counts from the end
PopPos(s, index) == IF index < 0 THEN index + Len(s) ELSE index

\* whether list.pop(index) finds an element (0-based position in 0..len-1)
PopInRange(s, index) == PopPos(s, index) >= 0 /\ PopPos(s, index) < Len(s)

\* the list after list.pop(index), index in range
PopAt(s, index) ==
    SubSeq(s, 1, PopPos(s, index)) \o SubSeq(s, PopPos(s, index) + 2, Len(s))

\* a call that changes no field of the object
Ends(c, how) ==
    /\ call' = c
    /\ result' = how
    /\ prev' = _coords
    /\ UNCHANGED <<phase, _rows, _cols, _coords, accepted, removed, _matrix>>

NoCall == [name |-> "none", dir |-> "", hasIndex |-> FALSE, index |-> 0,
           rows |-> 0, cols |-> 0, initialPos |-> Coordinate(0, 0)]

InitCall(rows, cols, initialPos) ==
    [NoCall EXCEPT !.name = "__init__", !.rows = rows, !.cols = cols,
                   !.initialPos = initialPos]

MoveCall(direction) == [NoCall EXCEPT !.name = "move", !.dir = direction]

RemoveCall(hasIndex, index) ==
    [NoCall EXCEPT !.name = "removeCoord", !.hasIndex = hasIndex, !.index = index]

\* __init__ validating the initial position before the dimensions
__init__posFirst(rows, cols, initialPos) ==
    /\ phase = "new"
    /\ call' = InitCall(rows, cols, initialPos)
    /\ prev' = _coords
    /\ UNCHANGED <<accepted, removed>>
    /\ IF ~_checkPos(rows, cols, initialPos)
       THEN /\ result' = "OutOfGridError"
            /\ phase' = "failed"
            /\ UNCHANGED <<_rows, _cols, _coords, _matrix>>
       ELSE IF rows <= 0 \/ cols <= 0
       THEN /\ result' = "ValueError"
            /\ phase' = "failed"
            /\ UNCHANGED <<_rows, _cols, _coords, _matrix>>
       ELSE /\ _rows' = rows
            /\ _cols' = cols
            /\ _matrix' = <<>>
            /\ _coords' = <<initialPos>>
            /\ result' = "ok"
            /\ phase' = "live"

__init__(rows, cols, initialPos) ==
    /\ phase = "new"
    /\ call' = InitCall(rows, cols, initialPos)
    /\ prev' = _coords
    /\ UNCHANGED <<accepted, removed>>
    /\ IF rows <= 0 \/ cols <= 0
       THEN /\ result' = "ValueError"
            /\ phase' = "failed"
            /\ UNCHANGED <<_rows, _cols, _coords, _matrix>>
       ELSE /\ _rows' = rows
            /\ _cols' = cols
            /\ _matrix' = <<>>
            /\ IF _checkPos(rows, cols, initialPos)
               THEN /\ _coords' = <<initialPos>>
                    /\ result' = "ok"
                    /\ phase' = "live"
               ELSE /\ _coords' = <<>>
                    /\ result' = "OutOfGridError"
                    /\ phase' = "failed"

\* move storing the new coordinate before checking it
move_commitFirst(direction) ==
    /\ phase = "live"
    /\ IF _coords = <<>>
       THEN Ends(MoveCall(direction), "IndexError")
       ELSE IF direction \notin DOMAIN _moves
       THEN Ends(MoveCall(direction), "InvalidDirection")
       ELSE LET prevPos == _coords[Len(_coords)]
                newPos == __add__(prevPos, _moves[direction])
            IN  /\ Len(_coords) < MaxLen
                /\ _coords' = Append(_coords, newPos)
                /\ call' = MoveCall(direction)
                /\ prev' = _coords
                /\ UNCHANGED <<phase, _rows, _cols, removed, _matrix>>
                /\ IF ~_checkPos(_rows, _cols, newPos)
                   THEN result' = "OutOfGridError" /\ accepted' = accepted
                   ELSE result' = "ok" /\ accepted' = accepted + 1

\* move whose KeyError handler reports and then falls through, storing the
\* previous position again
move_noReturn(direction) ==
    /\ phase = "live"
    /\ IF _coords = <<>>
       THEN Ends(MoveCall(direction), "IndexError")
       ELSE LET prevPos == _coords[Len(_coords)]
                known == direction \in DOMAIN _moves
                newPos == IF known THEN __add__(prevPos, _moves[direction])
                          ELSE prevPos
            IN  IF ~_checkPos(_rows, _cols, newPos)
                THEN Ends(MoveCall(direction), "OutOfGridError")
                ELSE /\ Len(_coords) < MaxLen
                     /\ _coords' = Append(_coords, newPos)
                     /\ call' = MoveCall(direction)
                     /\ result' = IF known THEN "ok" ELSE "InvalidDirection"
                     /\ prev' = _coords
                     /\ accepted' = IF known THEN accepted + 1 ELSE accepted
                     /\ UNCHANGED <<phase, _rows, _cols, removed, _matrix>>

move(direction) ==
    /\ phase = "live"
    /\ IF _coords = <<>>
       THEN Ends(MoveCall(direction), "IndexError")
       ELSE IF direction \notin DOMAIN _moves
       THEN Ends(MoveCall(direction), "InvalidDirection")
       ELSE LET prevPos == _coords[Len(_coords)]
                newPos == __add__(prevPos, _moves[direction])
            IN  IF ~_checkPos(_rows, _cols, newPos)
                THEN Ends(MoveCall(direction), "OutOfGridError")
                ELSE /\ Len(_coords) < MaxLen
                     /\ _coords' = Append(_coords, newPos)
                     /\ call' = MoveCall(direction)
                     /\ result' = "ok"
                     /\ prev' = _coords
                     /\ accepted' = accepted + 1
                     /\ UNCHANGED <<phase, _rows, _cols, removed, _matrix>>

\* removeCoord popping the first coordinate when no index is given
removeCoord_first(hasIndex, index) ==
    /\ phase = "live"
    /\ LET i == IF hasIndex THEN index ELSE 0
       IN  IF ~PopInRange(_coords, i)
           THEN Ends(RemoveCall(hasIndex, index), "IndexError")
           ELSE /\ removed < MaxRemovals
                /\ _coords' = PopAt(_coords, i)
                /\ call' = RemoveCall(hasIndex, index)
                /\ result' = "ok"
                /\ prev' = _coords
                /\ removed' = removed + 1
                /\ UNCHANGED <<phase, _rows, _cols, accepted, _matrix>>

\* removeCoord popping the last coordinate whatever the index
removeCoord_ignoreIndex(hasIndex, index) ==
    /\ phase = "live"
    /\ LET i == 0 - 1
       IN  IF ~PopInRange(_coords, i)
           THEN Ends(RemoveCall(hasIndex, index), "IndexError")
           ELSE /\ removed < MaxRemovals
                /\ _coords' = PopAt(_coords, i)
                /\ call' = RemoveCall(hasIndex, index)
                /\ result' = "ok"
                /\ prev' = _coords
                /\ removed' = removed + 1
                /\ UNCHANGED <<phase, _rows, _cols, accepted, _matrix>>

removeCoord(hasIndex, index) ==
    /\ phase = "live"
    /\ LET i == IF hasIndex THEN index ELSE 0 - 1
       IN  IF ~PopInRange(_coords, i)
           THEN Ends(RemoveCall(hasIndex, index), "IndexError")
           ELSE /\ removed < MaxRemovals
                /\ _coords' = PopAt(_coords, i)
                /\ call' = RemoveCall(hasIndex, index)
                /\ result' = "ok"
                /\ prev' = _coords
                /\ removed' = removed + 1
                /\ UNCHANGED <<phase, _rows, _cols, accepted, _matrix>>

(* ------------------------------ drawRoute ----------------------------- *)

\* a string is the sequence of its characters
linesep == <<"\n">>

\* s * n
Repeat(s, n) == [k \in 1..(Len(s) * n) |-> s[((k - 1) % Len(s)) + 1]]

DigitChar(d) == <<"0", "1", "2", "3", "4", "5", "6", "7", "8", "9">>[d + 1]

RECURSIVE Digits(_)
\* str(n), n >= 0
Digits(n) == IF n < 10 THEN <<DigitChar(n)>>
             ELSE Digits(n \div 10) \o <<DigitChar(n % 10)>>

\* f"{s:>w}"
RJust(s, w) == IF Len(s) >= w THEN s ELSE Repeat(<<" ">>, w - Len(s)) \o s

\* f"{s:^w}": the odd space of the padding goes to the right
Center(s, w) ==
    IF Len(s) >= w THEN s
    ELSE LET pad == w - Len(s)
             left == pad \div 2
         IN  Repeat(<<" ">>, left) \o s \o Repeat(<<" ">>, pad - left)

RECURSIVE Join(_, _)
\* sep.join(parts)
Join(sep, parts) ==
    IF parts = <<>> THEN <<>>
    ELSE IF Len(parts) = 1 THEN parts[1]
    ELSE parts[1] \o sep \o Join(sep, Tail(parts))

\* self._rowSep with the column count in place of the row count
_rowSep_cols(rows, cols) == Repeat(<<"-", "-", "-", ":">>, cols + 1) \o <<"-", "-", "-">> \o linesep

\* self._rowSep, set by __init__ from self._rows; cols is not used
_rowSep(rows, cols) == Repeat(<<"-", "-", "-", ":">>, rows + 1) \o <<"-", "-", "-">> \o linesep

\* the matrix of rows x cols blanks; row r of the model is self._matrix[r - 1]
EmptyMatrix(rows, cols) == [r \in 1..rows |-> [c \in 1..cols |-> " "]]

RECURSIVE FillMatrix_transposed(_, _)
\* the fill with the row and the column of each cell exchanged
FillMatrix_transposed(matrix, coords) ==
    IF coords = <<>> THEN matrix
    ELSE FillMatrix_transposed(
            [matrix EXCEPT ![Head(coords).x][Head(coords).y] = "x"], Tail(coords))

RECURSIVE FillMatrix_toggle(_, _)
\* the fill clearing a cell that is visited again
FillMatrix_toggle(matrix, coords) ==
    IF coords = <<>> THEN matrix
    ELSE FillMatrix_toggle(
            [matrix EXCEPT ![Head(coords).y][Head(coords).x] =
                IF @ = " " THEN "x" ELSE " "], Tail(coords))

RECURSIVE FillMatrix(_, _)
\* for coord in self._coords: self._matrix[coord.y - 1][coord.x - 1] = "x"
FillMatrix(matrix, coords) ==
    IF coords = <<>> THEN matrix
    ELSE FillMatrix(
            [matrix EXCEPT ![Head(coords).y][Head(coords).x] = "x"], Tail(coords))

\* one grid row: label, cells, row separator
GridRow(rows, cols, matrix, i) ==
    RJust(Digits(i + 1), 3) \o <<":", " ">>
        \o Join(Center(<<":">>, 3), [c \in 1..cols |-> <<matrix[i + 1][c]>>])
        \o RJust(<<":">>, 2) \o linesep
        \o _rowSep(rows, cols)

RECURSIVE GridRows(_, _, _, _)
\* the rows from index i down to 0
GridRows(rows, cols, matrix, i) ==
    IF i < 0 THEN <<>>
    ELSE GridRow(rows, cols, matrix, i) \o GridRows(rows, cols, matrix, i - 1)

\* the string drawRoute builds from the filled matrix
DrawGrid(rows, cols, matrix) ==
    Repeat(RJust(<<":">>, 4), cols + 1) \o Center(<<" ">>, 3) \o linesep
        \o _rowSep(rows, cols)
        \o GridRows(rows, cols, matrix, rows - 1)
        \o RJust(<<":">>, 4)
        \o Join(<<":">>, [i \in 1..cols |-> Center(Digits(i), 3)])
        \o <<":">>

DrawCall == [NoCall EXCEPT !.name = "drawRoute"]

drawRoute ==
    /\ phase = "live"
    /\ _matrix' = FillMatrix(EmptyMatrix(_rows, _cols), _coords)
    /\ grid' = DrawGrid(_rows, _cols, _matrix')
    /\ call' = DrawCall
    /\ result' = "ok"
    /\ prev' = _coords
    /\ UNCHANGED <<phase, _rows, _cols, _coords, accepted, removed>>

(* ------------------------ fromFile and __main__ ----------------------- *)

\* fromFile's default grid, which __main__ uses
DefaultRows == 12

DefaultCols == 12

\* no file named yet
NoFile == [exists |-> FALSE, lines |-> <<>>]

Whitespace == {" ", "\n", "\t"}

RECURSIVE LStrip(_)
LStrip(text) ==
    IF text # <<>> /\ Head(text) \in Whitespace THEN LStrip(Tail(text)) ELSE text

RECURSIVE RStrip(_)
RStrip(text) ==
    IF text # <<>> /\ text[Len(text)] \in Whitespace
    THEN RStrip(SubSeq(text, 1, Len(text) - 1)) ELSE text

\* str.strip()
Strip(text) == RStrip(LStrip(text))

DigitChars == {"0", "1", "2", "3", "4", "5", "6", "7", "8", "9"}

DigitValue(ch) == CHOOSE d \in 0..9 : DigitChar(d) = ch

RECURSIVE DigitsValue(_)
\* the number a non-empty string of decimal digits writes
DigitsValue(text) ==
    IF Len(text) = 1 THEN DigitValue(text[1])
    ELSE 10 * DigitsValue(SubSeq(text, 1, Len(text) - 1)) + DigitValue(text[Len(text)])

\* int(text): an optional sign and decimal digits, ValueError otherwise
ParseInt(text) ==
    LET signed == text # <<>> /\ Head(text) \in {"+", "-"}
        body == IF signed THEN Tail(text) ELSE text
    IN  IF body # <<>> /\ \A k \in 1..Len(body) : body[k] \in DigitChars
        THEN [ok |-> TRUE,
              val |-> IF signed /\ Head(text) = "-" THEN 0 - DigitsValue(body)
                      ELSE DigitsValue(body)]
        ELSE [ok |-> FALSE, val |-> 0]

\* the direction move is handed: a key of _moves can only be one character,
\* so every longer text stands for the same unknown direction
Direction(text) ==
    IF text = <<>> THEN "" ELSE IF Len(text) = 1 THEN text[1] ELSE "??"

\* inFile.readline(): the next line, or the empty string at the end of the file
ReadLine(lines) == IF lines = <<>> THEN <<>> ELSE Head(lines)

\* the lines left once readline has been called
AfterReadLine(lines) == IF lines = <<>> THEN <<>> ELSE Tail(lines)

\* a line writing the integer n
IntLine(n) ==
    (IF n < 0 THEN <<"-">> \o Digits(0 - n) ELSE Digits(n)) \o <<"\n">>

\* first and second lines of the files: integers around both edges of the
\* default grid, a word, and an empty line
HeaderLines ==
    {IntLine(n) : n \in ((1 - DimSlack)..1) \cup (DefaultCols..(DefaultCols + DimSlack))}
        \cup {<<"a", "\n">>, <<"\n">>}

\* direction lines of the files
MoveLines ==
    {<<"N", "\n">>, <<"S", "\n">>, <<"E", "\n">>, <<" ", "W", " ", "\n">>,
     <<"X", "\n">>, <<"\n">>}

RECURSIVE SeqsUpTo(_, _)
\* the sequences of at most n elements of a set
SeqsUpTo(set, n) ==
    IF n = 0 THEN {<<>>}
    ELSE LET shorter == SeqsUpTo(set, n - 1)
         IN  shorter \cup {Append(q, e) : q \in shorter, e \in set}

\* the route files: cut short before the directions, or two header lines and
\* at most MaxFileMoves direction lines
Files ==
    {<<>>} \cup {<<h>> : h \in HeaderLines}
        \cup {<<hx, hy>> \o m : hx \in HeaderLines, hy \in HeaderLines,
                                 m \in SeqsUpTo(MoveLines, MaxFileMoves)}

\* the state of a RoutePlotter not constructed yet
FreshTracker ==
    /\ phase' = "new"
    /\ _rows' = 0
    /\ _cols' = 0
    /\ _coords' = <<>>
    /\ _matrix' = <<>>
    /\ grid' = <<>>
    /\ call' = NoCall
    /\ result' = "none"
    /\ prev' = <<>>
    /\ accepted' = 0
    /\ removed' = 0
    /\ startPos' = Coordinate(0, 0)

trackerVars == <<phase, _rows, _cols, _coords, _matrix, grid, call, result, prev,
                 accepted, removed, startPos>>

\* input(...).strip() and the two tests on it: STOP ends the loop, an empty
\* answer prompts again, anything else names a file handed to fromFile
MainPrompt ==
    /\ mainpc = "prompt"
    /\ FreshTracker
    /\ pending' = <<>>
    /\ ret' = "none"
    /\ stdout' = <<>>
    /\ \/ nextRoute' = "STOP" /\ mainpc' = "done" /\ file' = NoFile
       \/ nextRoute' = "" /\ mainpc' = "prompt" /\ file' = NoFile
       \/ nextRoute' = "missing.txt" /\ mainpc' = "fromFile" /\ file' = NoFile
       \/ \E lines \in Files :
             /\ nextRoute' = "route.txt"
             /\ mainpc' = "fromFile"
             /\ file' = [exists |-> TRUE, lines |-> lines]

\* fromFile up to the constructor call: open, the two readline/int calls,
\* cls(rows, cols, Coordinate(x, y))
FromFileOpen ==
    /\ mainpc = "fromFile"
    /\ UNCHANGED <<nextRoute, file>>
    /\ IF ~file.exists
       THEN /\ stdout' = Append(stdout, "File not found")
            /\ ret' = "None"
            /\ mainpc' = "returned"
            /\ UNCHANGED <<trackerVars, pending>>
       ELSE LET x == ParseInt(Strip(ReadLine(file.lines)))
                rest == AfterReadLine(file.lines)
                y == ParseInt(Strip(ReadLine(rest)))
            IN  IF ~x.ok \/ ~y.ok
                THEN \* int raises ValueError; the handler names TypeError
                     /\ ret' = "ValueError"
                     /\ mainpc' = "crashed"
                     /\ pending' = IF x.ok THEN AfterReadLine(rest) ELSE rest
                     /\ UNCHANGED <<trackerVars, stdout>>
                ELSE /\ __init__(DefaultRows, DefaultCols, Coordinate(x.val, y.val))
                     /\ startPos' = Coordinate(x.val, y.val)
                     /\ pending' = AfterReadLine(rest)
                     /\ UNCHANGED <<grid, stdout>>
                     /\ IF result' = "ok"
                        THEN ret' = "none" /\ mainpc' = "moving"
                        ELSE ret' = result' /\ mainpc' = "crashed"

\* the loop going on after the route has left the grid
FromFileMove_goOn ==
    /\ mainpc = "moving"
    /\ pending # <<>>
    /\ move(Direction(Strip(Head(pending))))
    /\ pending' = Tail(pending)
    /\ UNCHANGED <<grid, startPos, nextRoute, file, ret, mainpc>>
    /\ stdout' = CASE result' = "OutOfGridError" ->
                        Append(stdout, "Error: The route is outside of the grid.")
                    [] result' = "InvalidDirection" ->
                        Append(stdout, "Provided direction is invalid")
                    [] OTHER -> stdout

\* one pass of the loop over the remaining lines: route.move(line.strip()),
\* with the OutOfGridError handler that prints and returns None
FromFileMove ==
    /\ mainpc = "moving"
    /\ pending # <<>>
    /\ move(Direction(Strip(Head(pending))))
    /\ pending' = Tail(pending)
    /\ UNCHANGED <<grid, startPos, nextRoute, file>>
    /\ IF result' = "OutOfGridError"
       THEN /\ stdout' = Append(stdout, "Error: The route is outside of the grid.")
            /\ ret' = "None"
            /\ mainpc' = "returned"
       ELSE /\ stdout' = IF result' = "InvalidDirection"
                         THEN Append(stdout, "Provided direction is invalid")
                         ELSE stdout
            /\ UNCHANGED <<ret, mainpc>>

\* return route, once the lines are used up
FromFileReturn ==
    /\ mainpc = "moving"
    /\ pending = <<>>
    /\ ret' = "route"
    /\ mainpc' = "returned"
    /\ UNCHANGED <<trackerVars, nextRoute, file, pending, stdout>>

\* if routePlotter: printRoute(); printCoords() - then the loop prompts again
MainPrint ==
    /\ mainpc = "returned"
    /\ mainpc' = "prompt"
    /\ UNCHANGED <<nextRoute, file, pending, ret, startPos>>
    /\ IF ret = "route"
       THEN /\ drawRoute
            /\ stdout' = stdout \o <<"grid", "coordinates">>
       ELSE UNCHANGED <<trackerVars, stdout>>

(* --------------------------- specification ---------------------------- *)

Init ==
    /\ phase = "new"
    /\ _rows = 0
    /\ _cols = 0
    /\ _coords = <<>>
    /\ call = NoCall
    /\ result = "none"
    /\ prev = <<>>
    /\ accepted = 0
    /\ removed = 0
    /\ _matrix = <<>>
    /\ grid = <<>>
    /\ startPos = Coordinate(0, 0)
    /\ mainpc = "prompt"
    /\ nextRoute = ""
    /\ file = NoFile
    /\ pending = <<>>
    /\ ret = "none"
    /\ stdout = <<>>

\* the constructor runs once, on the state no call has touched
Construct ==
    /\ phase = "new"
    /\ \E rows \in RowsRange, cols \in ColsRange, x \in XRange, y \in YRange :
            /\ __init__(rows, cols, Coordinate(x, y))
            /\ startPos' = Coordinate(x, y)
    /\ UNCHANGED <<grid, ioVars>>

Move ==
    /\ \E direction \in Tokens : move(direction)
    /\ UNCHANGED <<grid, startPos, ioVars>>

RemoveLast == removeCoord(FALSE, 0) /\ UNCHANGED <<grid, startPos, ioVars>>

RemoveAt ==
    /\ \E index \in IndexRange : removeCoord(TRUE, index)
    /\ UNCHANGED <<grid, startPos, ioVars>>

DrawRoute == drawRoute /\ UNCHANGED <<startPos, ioVars>>

Next == Construct \/ Move \/ RemoveLast \/ RemoveAt

Spec == Init /\ [][Next]_vars

\* a freshly constructed tracker that is only moved
NextMoves == Construct \/ Move

SpecMoves == Init /\ [][NextMoves]_vars

\* the interactive loop loading route files
NextMain == MainPrompt \/ FromFileOpen \/ FromFileMove \/ FromFileReturn \/ MainPrint

SpecMain == Init /\ [][NextMain]_vars

\* a tracker that is moved and shortened from its end
NextNoIndex == Construct \/ Move \/ RemoveLast

SpecNoIndex == Init /\ [][NextNoIndex]_vars

\* a tracker that is moved, shortened from its end and drawn
NextDraw == Construct \/ Move \/ RemoveLast \/ DrawRoute

SpecDraw == Init /\ [][NextDraw]_vars

(* ------------------------------ claims -------------------------------- *)

\* C1: once a tracker is constructed, whatever move and removeCoord calls
\* follow (succeeding or failing), every coordinate of the list lies in the
\* grid: 1 <= x <= cols and 1 <= y <= rows.
C1_AllInGrid ==
    phase = "live" =>
        \A k \in 1..Len(_coords) :
            /\ 1 <= _coords[k].x /\ _coords[k].x <= _cols
            /\ 1 <= _coords[k].y /\ _coords[k].y <= _rows

\* moves and removals have happened, a call has just failed, and the route
\* ends in the far corner of the grid
C1_Witness ==
    /\ phase = "live"
    /\ accepted >= 2
    /\ removed >= 1
    /\ result \in {"OutOfGridError", "IndexError"}
    /\ Len(_coords) >= 2
    /\ _coords[Len(_coords)] = Coordinate(_cols, _rows)

\* C2: a move in one of the four directions whose candidate, last coordinate
\* plus delta, lies outside the grid raises OutOfGridError and leaves the list
\* as it was; on a 1x1 grid holding [(1,1)] that is every direction.
C2_RejectedMoveAtomic ==
    LET last == prev[Len(prev)]
        candidate == Coordinate(last.x + _moves[call.dir].x,
                                last.y + _moves[call.dir].y)
        outside == \/ candidate.x < 1 \/ candidate.x > _cols
                   \/ candidate.y < 1 \/ candidate.y > _rows
    IN  /\ (/\ call.name = "move"
            /\ call.dir \in {"N", "S", "E", "W"}
            /\ prev # <<>>
            /\ outside)
           => (result = "OutOfGridError" /\ _coords = prev)
        /\ (/\ call.name = "move"
            /\ call.dir \in {"N", "S", "E", "W"}
            /\ _rows = 1 /\ _cols = 1
            /\ prev = <<Coordinate(1, 1)>>)
           => (result = "OutOfGridError" /\ _coords = <<Coordinate(1, 1)>>)

\* the boundary scenario: 1x1 grid, start (1,1), move N rejected
C2_Witness ==
    /\ _rows = 1 /\ _cols = 1
    /\ call = MoveCall("N")
    /\ prev = <<Coordinate(1, 1)>>
    /\ result = "OutOfGridError"
    /\ accepted = 0 /\ removed = 0

\* C3: a move with a token outside {N, S, E, W} reports the invalid
\* direction, raises nothing (no OutOfGridError, no other exception) and
\* leaves the list as it was, in every state of the tracker.
C3_InvalidDirectionReported ==
    (call.name = "move" /\ call.dir \notin {"N", "S", "E", "W"})
        => (result = "InvalidDirection" /\ _coords = prev)

\* C4: the coordinate list of a constructed tracker is never empty.
C4_NeverEmpty == phase = "live" => Len(_coords) >= 1

\* C5: a constructor call with rows <= 0 or cols <= 0 raises ValueError
\* whatever the start coordinate, and produces no tracker.
C5_BadDimensionsValueError ==
    (call.name = "__init__" /\ (call.rows <= 0 \/ call.cols <= 0))
        => (result = "ValueError" /\ phase = "failed" /\ _coords = <<>>)

\* non-positive dimensions together with a start no grid contains
C5_Witness ==
    /\ call.name = "__init__"
    /\ call.rows <= 0
    /\ call.cols >= 1
    /\ call.initialPos.x < 1
    /\ result = "ValueError"
    /\ phase = "failed"

\* C6: with rows >= 1 and cols >= 1 the constructor succeeds exactly when
\* 1 <= start.x <= cols and 1 <= start.y <= rows, the list then being
\* [start]; otherwise it raises OutOfGridError and produces no tracker.
C6_ConstructIffStartInGrid ==
    LET start == call.initialPos
        inGrid == /\ 1 <= start.x /\ start.x <= call.cols
                  /\ 1 <= start.y /\ start.y <= call.rows
    IN  (call.name = "__init__" /\ call.rows >= 1 /\ call.cols >= 1)
          => IF inGrid
             THEN /\ result = "ok" /\ phase = "live"
                  /\ _coords = <<start>>
                  /\ _rows = call.rows /\ _cols = call.cols
             ELSE result = "OutOfGridError" /\ phase = "failed"

\* a grid with more columns than rows, started in its far corner
C6_Witness ==
    /\ call.name = "__init__"
    /\ result = "ok"
    /\ _cols > _rows
    /\ _coords = <<Coordinate(_cols, _rows)>>

\* C7: an accepted move appends exactly the last coordinate plus the delta of
\* its direction, N=(0,1), S=(0,-1), E=(1,0), W=(-1,0), after the unchanged
\* earlier elements.
C7_AcceptedMoveAppendsDelta ==
    LET dx == CASE call.dir = "E" -> 1 [] call.dir = "W" -> 0 - 1 [] OTHER -> 0
        dy == CASE call.dir = "N" -> 1 [] call.dir = "S" -> 0 - 1 [] OTHER -> 0
        last == prev[Len(prev)]
    IN  (call.name = "move" /\ result = "ok")
          => /\ call.dir \in {"N", "S", "E", "W"}
             /\ Len(_coords) = Len(prev) + 1
             /\ SubSeq(_coords, 1, Len(prev)) = prev
             /\ _coords[Len(_coords)] = Coordinate(last.x + dx, last.y + dy)

\* the round-trip scenario: grid 3x3, start (1,1), moves N, N, E
C7_Witness ==
    /\ _rows = 3 /\ _cols = 3
    /\ call = MoveCall("E") /\ result = "ok"
    /\ accepted = 3 /\ removed = 0
    /\ _coords = <<Coordinate(1, 1), Coordinate(1, 2), Coordinate(1, 3),
                   Coordinate(2, 3)>>

\* C8: on a tracker that is only moved, the list holds 1 + the number of
\* accepted moves; rejected moves and invalid tokens add nothing.
C8_LengthCountsAcceptedMoves ==
    phase = "live" => Len(_coords) = 1 + accepted

\* two accepted moves, then an invalid token
C8_Witness ==
    /\ phase = "live"
    /\ accepted = 2
    /\ call.name = "move"
    /\ result = "InvalidDirection"

\* C9: removeCoord() on a list of two or more coordinates removes the last
\* one and keeps the others in order; right after an accepted move it gives
\* back the list that held before the move.
C9_RemoveLast ==
    /\ [](  (call.name = "removeCoord" /\ ~call.hasIndex /\ Len(prev) >= 2)
              => (result = "ok" /\ _coords = SubSeq(prev, 1, Len(prev) - 1)))
    /\ [][ (/\ call.name = "move" /\ result = "ok"
            /\ call'.name = "removeCoord" /\ ~call'.hasIndex)
           => _coords' = prev ]_vars

\* removeCoord() has just undone a move from a list of three
C9_Witness ==
    /\ call.name = "removeCoord" /\ ~call.hasIndex
    /\ result = "ok"
    /\ Len(prev) = 3
    /\ Len(_coords) = 2
    /\ accepted = 2 /\ removed = 1

\* C10: removeCoord(index) with an index denoting a position of the list (p
\* counted from 0 at the front, or -1 down to -len counted from the end, as
\* list.pop counts) removes that element and keeps the others in order; any
\* other index raises IndexError and leaves the list as it was.
C10_RemoveAtIndex ==
    LET n == Len(prev)
        p == IF call.index < 0 THEN n + call.index ELSE call.index
    IN  (call.name = "removeCoord" /\ call.hasIndex)
          => IF 0 <= p /\ p < n
             THEN /\ result = "ok"
                  /\ Len(_coords) = n - 1
                  /\ \A k \in 1..(n - 1) :
                        _coords[k] = IF k <= p THEN prev[k] ELSE prev[k + 1]
             ELSE result = "IndexError" /\ _coords = prev

\* an inner element of a list of three distinct coordinates was removed
C10_Witness ==
    /\ call.name = "removeCoord" /\ call.hasIndex
    /\ call.index = 1
    /\ result = "ok"
    /\ Len(prev) = 3
    /\ prev[1] # prev[3]
    /\ _coords = <<prev[1], prev[3]>>

RECURSIVE SplitLines(_)
\* the lines of a text, cut at each line separator
SplitLines(text) ==
    IF \A k \in 1..Len(text) : text[k] # "\n" THEN <<text>>
    ELSE LET cut == CHOOSE k \in 1..Len(text) :
                        text[k] = "\n" /\ \A j \in 1..(k - 1) : text[j] # "\n"
         IN  <<SubSeq(text, 1, cut - 1)>>
                \o SplitLines(SubSeq(text, cut + 1, Len(text)))

\* how many times a character occurs in a text
CountChar(text, ch) == Cardinality({k \in 1..Len(text) : text[k] = ch})

RECURSIVE CellsInOrder(_)
\* the cells of a set listed once each, bottom row first, left to right
CellsInOrder(cells) ==
    IF cells = {} THEN <<>>
    ELSE LET first == CHOOSE c \in cells : \A d \in cells :
                          c.y < d.y \/ (c.y = d.y /\ c.x <= d.x)
         IN  <<first>> \o CellsInOrder(cells \ {first})

\* C14: the rendered grid has one line per grid row, labelled rows, rows-1,
\* ..., 1 from the top, with cols cells each, column 1 at the left; the cell
\* of row y, column x shows "x" exactly when (x, y) is in the coordinate list
\* and is blank otherwise.
C14_GridShowsVisited ==
    call.name = "drawRoute" =>
        LET ls == SplitLines(grid)
            digit == <<"0", "1", "2", "3", "4", "5", "6", "7", "8", "9">>
            label(y) == IF y < 10 THEN <<" ", " ", digit[y + 1], ":">>
                        ELSE <<" ", digit[(y \div 10) + 1], digit[(y % 10) + 1], ":">>
        IN  /\ Len(ls) = 2 * _rows + 3
            /\ \A y \in 1.._rows :
                  LET line == ls[2 * (_rows - y) + 3]
                  IN  /\ Len(line) = 4 * _cols + 4
                      /\ SubSeq(line, 1, 4) = label(y)
                      /\ \A x \in 1.._cols :
                            /\ line[4 * x + 4] = ":"
                            /\ line[4 * x + 2] =
                                 IF \E k \in 1..Len(_coords) :
                                        _coords[k].x = x /\ _coords[k].y = y
                                 THEN "x" ELSE " "

\* a non-square grid drawn after a move and a removal, with a cell of the top
\* row visited and the cell (1,1) not
C14_Witness ==
    /\ call.name = "drawRoute"
    /\ _rows # _cols
    /\ accepted >= 1 /\ removed >= 1
    /\ \E k \in 1..Len(_coords) : _coords[k].y = _rows
    /\ \A k \in 1..Len(_coords) : _coords[k] # Coordinate(1, 1)

\* C15: drawRoute leaves the coordinate list alone, returns the same string
\* when called again on an unmodified tracker, and its string depends only on
\* rows, cols and the set of visited cells: it is the string drawn from the
\* cells of the list taken once each in a fixed order.
C15_RenderingDeterministic ==
    /\ [](call.name = "drawRoute" =>
            LET cells == {_coords[k] : k \in 1..Len(_coords)}
            IN  grid = DrawGrid(_rows, _cols,
                           FillMatrix(EmptyMatrix(_rows, _cols), CellsInOrder(cells))))
    /\ [][ call'.name = "drawRoute" =>
             /\ _coords' = _coords
             /\ (call.name = "drawRoute" => grid' = grid) ]_vars

\* a route that came back to a cell it had visited has been drawn
C15_Witness ==
    /\ call.name = "drawRoute"
    /\ Len(_coords) >= 3
    /\ \E i, j \in 1..Len(_coords) : i < j /\ _coords[i] = _coords[j]
    /\ _coords[1] # _coords[Len(_coords)]

\* C16: every separator row of the rendered grid holds as many ':' as the
\* header line, cols + 1.
C16_SeparatorSpansColumns ==
    call.name = "drawRoute" =>
        LET ls == SplitLines(grid)
        IN  /\ CountChar(ls[1], ":") = _cols + 1
            /\ \A k \in 1..(_rows + 1) : CountChar(ls[2 * k], ":") = _cols + 1

\* C17: whatever move and removeCoord calls came before, a call of move ends
\* in one of three ways: it appends one coordinate, it raises OutOfGridError
\* with the list as it was, or it reports an invalid direction with the list
\* as it was; it raises nothing else.
C17_MoveThreeOutcomes ==
    call.name = "move" =>
        \/ result = "ok" /\ Len(_coords) = Len(prev) + 1
        \/ result = "OutOfGridError" /\ _coords = prev
        \/ result = "InvalidDirection" /\ _coords = prev

\* C18: under move and removeCoord() calls the list starts with the start
\* coordinate and every two consecutive coordinates are one unit step apart.
C18_RouteContiguous ==
    phase = "live" =>
        /\ Len(_coords) >= 1
        /\ _coords[1] = startPos
        /\ \A k \in 1..(Len(_coords) - 1) :
              LET dx == _coords[k + 1].x - _coords[k].x
                  dy == _coords[k + 1].y - _coords[k].y
              IN  (IF dx < 0 THEN 0 - dx ELSE dx) + (IF dy < 0 THEN 0 - dy ELSE dy) = 1

\* the direction tokens of the file being loaded, in file order
FileTokens ==
    [k \in 1..(Len(file.lines) - 2) |-> Direction(Strip(file.lines[k + 2]))]

RECURSIVE RouteWalk(_, _, _)
\* the route the tokens describe from the list cs on the default grid: the
\* list reached, whether a token left the grid, and how many tokens were used
RouteWalk(cs, tokens, used) ==
    IF tokens = <<>> THEN [coords |-> cs, stopped |-> FALSE, used |-> used]
    ELSE LET t == Head(tokens)
             last == cs[Len(cs)]
             next == CASE t = "N" -> [x |-> last.x, y |-> last.y + 1]
                       [] t = "S" -> [x |-> last.x, y |-> last.y - 1]
                       [] t = "E" -> [x |-> last.x + 1, y |-> last.y]
                       [] t = "W" -> [x |-> last.x - 1, y |-> last.y]
                       [] OTHER -> last
         IN  IF t \notin {"N", "S", "E", "W"}
             THEN RouteWalk(cs, Tail(tokens), used + 1)
             ELSE IF next.x < 1 \/ next.x > 12 \/ next.y < 1 \/ next.y > 12
             THEN [coords |-> cs, stopped |-> TRUE, used |-> used + 1]
             ELSE RouteWalk(Append(cs, next), Tail(tokens), used + 1)

\* C11: fromFile hands the tokens to move in file order and stops at the
\* first one that leaves the grid: the later lines stay unread and the caller
\* gets no tracker. When no token leaves the grid the caller gets the tracker
\* whose list is the start followed by the position after each valid token,
\* invalid tokens being passed over.
C11_LoaderStopsAtFirstOutOfGrid ==
    (/\ mainpc \in {"returned", "prompt"}
     /\ nextRoute = "route.txt"
     /\ phase = "live")
      => LET w == RouteWalk(<<startPos>>, FileTokens, 0)
         IN  /\ _coords = w.coords
             /\ w.stopped => (ret = "None" /\ Len(pending) = Len(FileTokens) - w.used)
             /\ ~w.stopped => (ret = "route" /\ pending = <<>>)

\* the first direction of a file left the grid and a line after it is unread
C11_Witness ==
    /\ mainpc = "returned"
    /\ ret = "None"
    /\ result = "OutOfGridError"
    /\ pending # <<>>
    /\ _coords = <<startPos>>

\* C12: a missing file, or a first or second line that is no integer (a
\* file too short included), makes fromFile return without a tracker and
\* without an exception, the constructor and move never having been called.
C12_BadHeaderReported ==
    (/\ mainpc \in {"returned", "crashed"}
     /\ \/ ~file.exists
        \/ ~ParseInt(Strip(ReadLine(file.lines))).ok
        \/ ~ParseInt(Strip(ReadLine(AfterReadLine(file.lines)))).ok)
      => (ret = "None" /\ mainpc = "returned" /\ phase = "new" /\ call = NoCall)

\* C13: a route file whose load fails is reported, produces no grid and no
\* coordinate output, and the loop prompts again; the process ends only when
\* STOP is entered.
C13_LoopSurvivesFailedLoads ==
    /\ mainpc \in {"done", "crashed"} => nextRoute = "STOP"
    /\ (mainpc \in {"returned", "prompt"} /\ ret = "None")
         => /\ stdout # <<>>
            /\ \A k \in 1..Len(stdout) : stdout[k] \notin {"grid", "coordinates"}

====
